---- MODULE Spec2Model ----
(***************************************************************************)
(* The streaming frame pipeline of toolchest: TTSEngine's producer         *)
(* callback and frame queue (src/src/tts_engine.py) and the tts_mlx        *)
(* controller with its real-time audio callback (src/src/tts_mlx.py), and   *)
(* the url_to_wav command (src/src/url_to_wav.py) that drives the same     *)
(* engine.                                                                 *)
(*                                                                         *)
(* Samples are integers; a decoded block is a sequence of samples.  The    *)
(* generator and the audio tokenizer are external: every step draws a raw  *)
(* output and a decoded block from bounded sets.                           *)
(***************************************************************************)
EXTENDS Integers, Sequences, FiniteSets, TLC

\* ----------------------------------------------------------------- bounds
\* Generation steps (callback invocations) of one generate() call.
MaxSteps == 2
\* Codebook entries of one raw generator output.
NumCodebooks == 2
\* Samples of one output buffer; stands for AudioConfig.DEFAULT_BLOCKSIZE
\* (1920), scaled so that blocks stay enumerable.
BlockSize == 3
\* Callbacks on an empty queue that are counted.
MaxUnderruns == 3
\* Drain-loop sleeps that are counted.
MaxPolls == 2
\* Largest magnitude and length of the inputs of the clamp.
ClampPeak == 3
ClampLen == 3

\* ------------------------------------------------------ program constants
DEFAULT_SAMPLE_RATE == 24000
AUDIO_CLIP_MIN == -1
AUDIO_CLIP_MAX == 1
\* The value compared against in (frame == -1).
SENTINEL == -1
\* Seconds slept before the drain loop and between its polls.
INITIAL_PLAYBACK_DELAY == 3
LOOP_PLAYBACK_DELAY == 1
\* queue.Queue() is built without maxsize: 0, which the library reads as
\* no limit.
QUEUE_MAXSIZE == 0

\* ---------------------------------------------------------------- inputs
\* Raw generator outputs: one token per codebook, SENTINEL where the
\* codebook holds no token.
RawOutputs == [1..NumCodebooks -> {SENTINEL, 0}]
\* Blocks the decoder may return: of the buffer's length, one sample short
\* of it, and of one sample (the three cases of the assignment to the
\* buffer's column); a first sample and the samples after it, each inside
\* or outside the clip interval.
DecodedSamples == {-2, 1}
DecodedBlocks ==
    {[i \in 1..n |-> IF i = 1 THEN a ELSE b] :
        n \in {1, BlockSize - 1, BlockSize},
        a \in DecodedSamples, b \in DecodedSamples}
\* What the driver's buffer holds before the callback writes it.
StaleBuffers == {[i \in 1..BlockSize |-> v] : v \in {-2, 2}}
\* Sample rates a loaded audio tokenizer may report.
SampleRates == {DEFAULT_SAMPLE_RATE, 2 * DEFAULT_SAMPLE_RATE}
\* The blocks decoded for a direct caller of the engine: whole buffers, one
\* below and one inside the clip interval.
ApiBlocks == {[i \in 1..BlockSize |-> v] : v \in DecodedSamples}
\* Frames a caller puts on the engine's queue itself: whole buffers.
PutFrames == {[i \in 1..BlockSize |-> v] : v \in {AUDIO_CLIP_MIN, AUDIO_CLIP_MAX}}
ClampInputs == UNION {[1..n -> (-ClampPeak)..ClampPeak] : n \in 1..ClampLen}

VARIABLES
    out,                \* args.out: "-" plays, anything else writes a file
    pc,                 \* the controller's position in main()
    stream,             \* sd.OutputStream: none, active, aborted, closed
    wav_frames,         \* main's local queue.Queue (real-time mode)
    engine_wav_frames,  \* TTSEngine.wav_frames
    outdata,            \* the output buffer after the last callback
    cb,                 \* the last callback: none, frame, silence, raise
    frames,             \* the list get_audio_frames returned
    written,            \* the samples handed to sphn.write_wav
    steps,              \* callback invocations made by the generator
    lastRaw,            \* the raw output of the last generator step
    lastPcm,            \* what decode_step returned then, <<>> if not called
    decodes,            \* calls of mimi.decode_step
    produced,           \* history: the frames enqueued, in order
    played,             \* history: the buffers written from a dequeued frame
    dequeued,           \* history: frames taken by the audio callback
    underruns,          \* history: callbacks that found the queue empty
    polls,              \* history: sleeps of the drain loop
    prog,               \* what runs: tts_mlx, url_to_wav, api (a caller)
    engine,             \* the TTSEngine object: none, constructed
    tts_model,          \* engine.tts_model: None, model
    mimi,               \* engine.mimi: <<>> for None, else <<its sample_rate>>
    text,               \* url_to_wav: unset, or the text extracted
    ret,                \* convert_url_to_wav: none, True, False, raised
    exited,             \* how main ended: none, returned, SystemExit1, raised
    fault,              \* the operation that raised last, none if none did
    call,               \* api: the engine method called last
    write_calls,        \* calls of the file writer
    written_rate,       \* <<the sample rate handed to the writer>>
    slept,              \* history: seconds the controller spent in time.sleep
    mark,               \* history: frames produced before the last generation
    on_frame_callback,  \* generate_audio's argument in the last generation
    cin, cout, cagain, cstage   \* the clamp applied to one block, twice

pvars == <<out, pc, stream, wav_frames, engine_wav_frames, outdata, cb, frames,
           written, steps, lastRaw, lastPcm, decodes, produced, played,
           dequeued, underruns, polls>>
cvars == <<cin, cout, cagain, cstage>>
nvars == <<prog, engine, tts_model, mimi, text, call, ret, exited, fault,
           write_calls, written_rate>>
tvars == <<slept, mark, on_frame_callback>>
vars == <<pvars, cvars, nvars, tvars>>

\* --------------------------------------------------------------- helpers
Min(a, b) == IF a < b THEN a ELSE b
Max(a, b) == IF a > b THEN a ELSE b

\* np.clip / mx.clip on one sample: minimum(maximum(x, lo), hi).
ClipNoLower(x, lo, hi) == Min(x, hi)
Clip(x, lo, hi) == Min(Max(x, lo), hi)

\* The clip of a whole block to [AUDIO_CLIP_MIN, AUDIO_CLIP_MAX].
ClipBlock(pcm) == [i \in DOMAIN pcm |-> Clip(pcm[i], AUDIO_CLIP_MIN, AUDIO_CLIP_MAX)]

\* (frame == -1).any()
HasSentinelNever(frame) == FALSE
HasSentinelAll(frame) == \A i \in DOMAIN frame : frame[i] = SENTINEL
HasSentinel(frame) == \E i \in DOMAIN frame : frame[i] = SENTINEL

\* queue.Queue.put_nowait raises queue.Full when maxsize > 0 and the queue
\* holds maxsize items; otherwise it appends at once.
PutRaisesFullAtOne(q) == Len(q) >= 1
PutRaisesFull(q) == QUEUE_MAXSIZE > 0 /\ Len(q) >= QUEUE_MAXSIZE
\* Added: the items a put left at the end of queue `after`.
Added(before, after) == SubSeq(after, Len(before) + 1, Len(after))
PutNowait(q, item) == Append(q, item)

\* TTSEngine._on_frame and main.custom_on_frame: the queue after the
\* callback ran on raw output `raw`, the decoder returning `pcm`.
on_frame(q, raw, pcm) ==
    IF HasSentinel(raw) THEN q ELSE PutNowait(q, ClipBlock(pcm))
custom_on_frame(q, raw, pcm) ==
    IF HasSentinel(raw) THEN q ELSE PutNowait(q, ClipBlock(pcm))
\* Whether the callback reached mimi.decode_step.
Decoded(raw) == ~HasSentinel(raw)


\* queue.Queue.get(block=False) / get_nowait: raises queue.Empty on an
\* empty queue, otherwise removes and returns the oldest item.
GetRaisesEmpty(q) == Len(q) = 0
GetItemNewest(q) == q[Len(q)]
GetItem(q) == Head(q)
GetRest(q) == Tail(q)

\* outdata[:] = 0
FillZeroNothing(buf) == buf
FillZero(buf) == [i \in DOMAIN buf |-> 0]

\* outdata[:, 0] = pcm_data: numpy copies a block of the buffer's length,
\* broadcasts a block of one sample, and raises ValueError on any other
\* length, leaving the buffer as it was.
AssignRaises(buf, pcm) == Len(pcm) # Len(buf) /\ Len(pcm) # 1
AssignColumn(buf, pcm) ==
    IF Len(pcm) = Len(buf) THEN pcm
    ELSE IF Len(pcm) = 1 THEN [i \in DOMAIN buf |-> pcm[1]]
    ELSE buf

\* TTSEngine.get_audio_frames: get_nowait until queue.Empty, appending
\* each item to the list.
RECURSIVE DrainNewestFirst(_, _)
DrainNewestFirst(q, acc) ==
    IF GetRaisesEmpty(q) THEN acc
    ELSE DrainNewestFirst(GetRest(q), <<GetItem(q)>> \o acc)
RECURSIVE Drain(_, _)
Drain(q, acc) ==
    IF GetRaisesEmpty(q) THEN acc
    ELSE Drain(GetRest(q), Append(acc, GetItem(q)))
\* The queue get_audio_frames leaves behind.
RemainingAfterOne(q) == IF GetRaisesEmpty(q) THEN q ELSE GetRest(q)
RECURSIVE Remaining(_)
Remaining(q) == IF GetRaisesEmpty(q) THEN q ELSE Remaining(GetRest(q))
get_audio_frames_reversed(q) == DrainNewestFirst(q, <<>>)
get_audio_frames(q) == Drain(q, <<>>)

\* np.concatenate(frames, -1)
RECURSIVE ConcatenateNewestFirst(_)
ConcatenateNewestFirst(fs) ==
    IF fs = <<>> THEN <<>> ELSE ConcatenateNewestFirst(Tail(fs)) \o Head(fs)
RECURSIVE Concatenate(_)
Concatenate(fs) == IF fs = <<>> THEN <<>> ELSE Head(fs) \o Concatenate(Tail(fs))

\* wav_frames.qsize() == 0, the drain loop's exit test.
DrainedAlways(q) == TRUE
Drained(q) == Len(q) = 0

\* generate_audio: self.wav_frames = queue.Queue(), whatever the old queue
\* held.
NewQueueKeepsItems(old) == old
NewQueue(old) == <<>>

\* generate_audio: callback = on_frame_callback or self._on_frame
CallbackIgnoresGiven(given) == "_on_frame"
Callback(given) == IF given = "None" THEN "_on_frame" ELSE given

\* time.sleep(seconds), on the seconds slept so far.
SleepSkipped(t, seconds) == t
Sleep(t, seconds) == t + seconds

\* generate_audio's first test: self.tts_model is None.
NotInitializedNever(m) == FALSE
NotInitialized(m) == m = "None"

\* The sample_rate and frame_rate properties: RuntimeError while self.mimi
\* is None, else the tokenizer's value.
RateRaises(m) == m = <<>>
sample_rate(m) == m[1]

\* sd.OutputStream.__exit__: the stream is stopped and closed, however the
\* with block is left.
ExitStreamLeak(st) == st
ExitStream(st) == "closed"

\* convert_url_to_wav's tests: `if not text` and `if not frames`.
NoTextNever(t) == FALSE
NoText(t) == t = ""
NoFramesNever(fs) == FALSE
NoFrames(fs) == Len(fs) = 0

\* url_to_wav.main: `if not success: sys.exit(1)`, else main returns.
ExitOfAlwaysReturns(r) == "returned"
ExitOf(r) == IF r = "False" THEN "SystemExit1" ELSE "returned"

\* ------------------------------------------------------------------ Init
ClampIdle ==
    /\ cin = <<>>
    /\ cout = <<>>
    /\ cagain = <<>>
    /\ cstage = 0

QueuesInit ==
    /\ stream = "none"
    /\ wav_frames = <<>>
    /\ engine_wav_frames = <<>>
    /\ outdata = <<>>
    /\ cb = "none"
    /\ frames = <<>>
    /\ written = <<>>
    /\ steps = 0
    /\ lastRaw = <<>>
    /\ lastPcm = <<>>
    /\ decodes = 0
    /\ produced = <<>>
    /\ played = <<>>
    /\ dequeued = 0
    /\ underruns = 0
    /\ polls = 0
    /\ slept = 0
    /\ mark = 0
    /\ on_frame_callback = "none"

PipelineInit ==
    /\ pc = "start"
    /\ QueuesInit

\* tts_mlx: main has constructed and initialized the engine and read the
\* input text.
MainInit ==
    /\ prog = "tts_mlx"
    /\ engine = "constructed"
    /\ tts_model = "model"
    /\ mimi = <<DEFAULT_SAMPLE_RATE>>
    /\ text = "unset"
    /\ ret = "none"
    /\ exited = "none"
    /\ fault = "none"
    /\ call = "none"
    /\ write_calls = 0
    /\ written_rate = <<>>

Init ==
    /\ out \in {"-", "file"}
    /\ PipelineInit
    /\ MainInit
    /\ ClampIdle

\* An exception of operation `kind` leaves the running function: out of
\* a with block through __exit__, out of convert_url_to_wav and main
\* uncaught, or into the hands of the engine's direct caller.
Raise(kind) ==
    /\ fault' = kind
    /\ pc' = IF prog = "api" THEN "idle" ELSE "failed"
    /\ exited' = IF prog = "api" THEN exited ELSE "raised"
    /\ ret' = IF prog = "url_to_wav" THEN "raised" ELSE ret
    /\ stream' = IF stream \in {"active", "aborted"} THEN ExitStream(stream)
                  ELSE stream

\* ------------------------------------------------------- the controller
\* main, real-time branch: the with statement opens and starts the stream.
OpenStream ==
    /\ prog = "tts_mlx"
    /\ pc = "start"
    /\ out = "-"
    /\ stream' = "active"
    /\ pc' = "generate"
    /\ UNCHANGED <<out, wav_frames, engine_wav_frames, outdata, cb, frames,
                   written, steps, lastRaw, lastPcm, decodes, produced, played,
                   dequeued, underruns, polls, cvars, tvars, nvars>>

\* sd.OutputStream(...) raises (device busy, unsupported sample rate):
\* nothing in main catches it.
OpenStreamFails ==
    /\ prog = "tts_mlx"
    /\ pc = "start"
    /\ out = "-"
    /\ Raise("open")
    /\ UNCHANGED <<out, wav_frames, engine_wav_frames, outdata, cb, frames,
                   written, steps, lastRaw, lastPcm, decodes, produced, played,
                   dequeued, underruns, polls, cvars, tvars, prog, engine, tts_model,
                   mimi, text, call, write_calls, written_rate>>

\* generate_audio up to the call of tts_model.generate: RuntimeError on an
\* engine without tts_model, before anything else; otherwise the engine's
\* queue is replaced by a new one.
GenerateAudio ==
    /\ \/ prog = "tts_mlx" /\ out = "-" /\ pc = "generate"
       \/ prog = "tts_mlx" /\ out # "-" /\ pc = "start"
       \/ prog = "url_to_wav" /\ pc = "generate"
       \/ prog = "api" /\ pc = "idle"
    /\ call' = "generate_audio"
    /\ IF NotInitialized(tts_model)
       THEN /\ Raise("uninitialized")
            /\ UNCHANGED <<engine_wav_frames, mark, on_frame_callback>>
       ELSE /\ engine_wav_frames' = NewQueue(engine_wav_frames)
            /\ \E given \in IF prog = "api" THEN {"None", "custom_on_frame"}
                             ELSE IF prog = "tts_mlx" /\ out = "-"
                                  THEN {"custom_on_frame"} ELSE {"None"} :
                    on_frame_callback' = given
            /\ mark' = Len(produced)
            /\ pc' = "generating"
            /\ fault' = "none"
            /\ UNCHANGED <<stream, exited, ret>>
    /\ UNCHANGED <<out, wav_frames, outdata, cb, frames, written,
                   steps, lastRaw, lastPcm, decodes, produced, played, dequeued,
                   underruns, polls, cvars, slept, prog, engine, tts_model, mimi,
                   text, write_calls, written_rate>>

\* One step of tts_model.generate: the callback is invoked on the step's
\* raw output; custom_on_frame in real-time mode, _on_frame otherwise.
GeneratorStep ==
    /\ pc = "generating"
    /\ steps < MaxSteps
    /\ \E raw \in RawOutputs,
          pcm \in IF prog = "api" THEN ApiBlocks ELSE DecodedBlocks :
        LET custom == Callback(on_frame_callback) = "custom_on_frame"
            q == IF custom THEN wav_frames ELSE engine_wav_frames IN
        /\ lastRaw' = raw
        /\ lastPcm' = IF Decoded(raw) THEN pcm ELSE <<>>
        /\ steps' = steps + 1
        /\ decodes' = IF Decoded(raw) THEN decodes + 1 ELSE decodes
        /\ IF Decoded(raw) /\ PutRaisesFull(q)
           THEN /\ Raise("full")
                /\ UNCHANGED <<wav_frames, engine_wav_frames, produced>>
           ELSE /\ IF custom
                   THEN /\ wav_frames' = custom_on_frame(wav_frames, raw, pcm)
                        /\ produced' = produced \o Added(wav_frames, wav_frames')
                        /\ UNCHANGED engine_wav_frames
                   ELSE /\ engine_wav_frames' =
                                on_frame(engine_wav_frames, raw, pcm)
                        /\ produced' = produced
                                \o Added(engine_wav_frames, engine_wav_frames')
                        /\ UNCHANGED wav_frames
                /\ UNCHANGED <<pc, stream, exited, ret, fault>>
    /\ UNCHANGED <<out, outdata, cb, frames, written, played, dequeued,
                   underruns, polls, cvars, tvars, prog, engine, tts_model,
                   mimi, text, call, write_calls, written_rate>>

\* mimi.decode_step raises inside the callback: neither callback nor
\* generate_audio catches anything, so the exception ends the generation.
DecodeRaises ==
    /\ pc = "generating"
    /\ steps < MaxSteps
    /\ \E raw \in RawOutputs :
        /\ Decoded(raw)
        /\ lastRaw' = raw
    /\ lastPcm' = <<>>
    /\ steps' = steps + 1
    /\ decodes' = decodes + 1
    /\ Raise("decode")
    /\ UNCHANGED <<out, wav_frames, engine_wav_frames, outdata, cb, frames,
                   written, produced, played, dequeued, underruns, polls, cvars,
                   tvars, prog, engine, tts_model, mimi, text, call, write_calls,
                   written_rate>>

\* tts_model.generate itself raises.
GeneratorRaises ==
    /\ pc = "generating"
    /\ Raise("generator")
    /\ UNCHANGED <<out, wav_frames, engine_wav_frames, outdata, cb, frames,
                   written, steps, lastRaw, lastPcm, decodes, produced, played,
                   dequeued, underruns, polls, cvars, tvars, prog, engine, tts_model,
                   mimi, text, call, write_calls, written_rate>>

\* tts_model.generate returns and generate_audio with it.
GeneratorReturn ==
    /\ pc = "generating"
    /\ pc' = IF prog = "api" THEN "idle"
             ELSE IF out = "-" THEN "sleep" ELSE "collect"
    /\ UNCHANGED <<out, stream, wav_frames, engine_wav_frames, outdata, cb,
                   frames, written, steps, lastRaw, lastPcm, decodes, produced,
                   played, dequeued, underruns, polls, cvars, tvars, nvars>>

\* time.sleep(INITIAL_PLAYBACK_DELAY)
InitialDelay ==
    /\ pc = "sleep"
    /\ slept' = Sleep(slept, INITIAL_PLAYBACK_DELAY)
    /\ pc' = "poll"
    /\ UNCHANGED <<out, stream, wav_frames, engine_wav_frames, outdata, cb,
                   frames, written, steps, lastRaw, lastPcm, decodes, produced,
                   played, dequeued, underruns, polls, cvars, mark,
                   on_frame_callback, nvars>>

\* The drain loop: break once the queue's size is 0 ...
PollBreak ==
    /\ pc = "poll"
    /\ Drained(wav_frames)
    /\ pc' = "exit"
    /\ UNCHANGED <<out, stream, wav_frames, engine_wav_frames, outdata, cb,
                   frames, written, steps, lastRaw, lastPcm, decodes, produced,
                   played, dequeued, underruns, polls, cvars, tvars, nvars>>

\* ... and time.sleep(LOOP_PLAYBACK_DELAY) otherwise.
PollSleep ==
    /\ pc = "poll"
    /\ ~Drained(wav_frames)
    /\ polls < MaxPolls
    /\ polls' = polls + 1
    /\ slept' = Sleep(slept, LOOP_PLAYBACK_DELAY)
    /\ UNCHANGED <<out, pc, stream, wav_frames, engine_wav_frames, outdata, cb,
                   frames, written, steps, lastRaw, lastPcm, decodes, produced,
                   played, dequeued, underruns, cvars, mark, on_frame_callback,
                   nvars>>

\* Leaving the with block stops and closes the stream.
CloseStream ==
    /\ pc = "exit"
    /\ stream' = ExitStream(stream)
    /\ pc' = "done"
    /\ exited' = "returned"
    /\ UNCHANGED <<out, wav_frames, engine_wav_frames, outdata, cb, frames,
                   written, steps, lastRaw, lastPcm, decodes, produced, played,
                   dequeued, underruns, polls, cvars, tvars, prog, engine, tts_model,
                   mimi, text, call, ret, fault, write_calls, written_rate>>

\* KeyboardInterrupt while the drain loop, its counted sleeps used up, still
\* waits for a queue that holds frames: nothing in main catches it, so it
\* leaves the with block, and __exit__ closes the stream.
Interrupt ==
    /\ prog = "tts_mlx"
    /\ out = "-"
    /\ pc = "poll"
    /\ ~Drained(wav_frames)
    /\ polls = MaxPolls
    /\ Raise("interrupt")
    /\ UNCHANGED <<out, wav_frames, engine_wav_frames, outdata, cb, frames,
                   written, steps, lastRaw, lastPcm, decodes, produced, played,
                   dequeued, underruns, polls, cvars, tvars, prog, engine,
                   tts_model, mimi, text, call, write_calls, written_rate>>

\* frames = engine.get_audio_frames(), in main's file branch and in
\* convert_url_to_wav.
GetAudioFrames ==
    /\ pc = "collect"
    /\ frames' = get_audio_frames(engine_wav_frames)
    /\ engine_wav_frames' = Remaining(engine_wav_frames)
    /\ pc' = "write"
    /\ UNCHANGED <<out, stream, wav_frames, outdata, cb, written, steps,
                   lastRaw, lastPcm, decodes, produced, played, dequeued, underruns,
                   polls, cvars, tvars, nvars>>

\* if frames: sphn.write_wav(args.out, np.concatenate(frames, -1),
\* engine.sample_rate); main then returns, whether it wrote or not.
WriteWav ==
    /\ prog = "tts_mlx"
    /\ pc = "write"
    /\ IF frames # <<>>
       THEN /\ written' = Concatenate(frames)
            /\ written_rate' = <<sample_rate(mimi)>>
            /\ write_calls' = write_calls + 1
       ELSE UNCHANGED <<written, written_rate, write_calls>>
    /\ pc' = "done"
    /\ exited' = "returned"
    /\ UNCHANGED <<out, stream, wav_frames, engine_wav_frames, outdata, cb,
                   frames, steps, lastRaw, lastPcm, decodes, produced, played,
                   dequeued, underruns, polls, cvars, tvars, prog, engine, tts_model,
                   mimi, text, call, ret, fault>>

\* ---------------------------------------------------- the audio driver
\* audio_callback, the try branch: a frame was dequeued and assigned to
\* the buffer's column.  An exception other than queue.Empty leaves the
\* callback; sounddevice then aborts the stream and calls it no more.
CallbackFrame ==
    /\ stream = "active"
    /\ ~GetRaisesEmpty(wav_frames)
    /\ \E stale \in StaleBuffers :
        LET pcm_data == GetItem(wav_frames) IN
        /\ wav_frames' = GetRest(wav_frames)
        /\ dequeued' = dequeued + 1
        /\ outdata' = AssignColumn(stale, pcm_data)
        /\ IF AssignRaises(stale, pcm_data)
           THEN /\ cb' = "raise"
                /\ stream' = "aborted"
                /\ UNCHANGED played
           ELSE /\ cb' = "frame"
                /\ played' = Append(played, outdata')
                /\ UNCHANGED stream
    /\ UNCHANGED <<out, pc, engine_wav_frames, frames, written, steps, lastRaw,
                   lastPcm, decodes, produced, underruns, polls, cvars, tvars, nvars>>

\* audio_callback, the except queue.Empty branch.
CallbackEmpty ==
    /\ stream = "active"
    /\ GetRaisesEmpty(wav_frames)
    /\ underruns < MaxUnderruns
    /\ \E stale \in StaleBuffers :
        outdata' = FillZero(stale)
    /\ cb' = "silence"
    /\ underruns' = underruns + 1
    /\ UNCHANGED <<out, pc, stream, wav_frames, engine_wav_frames, frames,
                   written, steps, lastRaw, lastPcm, decodes, produced, played,
                   dequeued, polls, cvars, tvars, nvars>>

AudioCallback == CallbackFrame \/ CallbackEmpty

Controller ==
    \/ OpenStream
    \/ OpenStreamFails
    \/ GenerateAudio
    \/ GeneratorStep
    \/ DecodeRaises
    \/ GeneratorRaises
    \/ GeneratorReturn
    \/ InitialDelay
    \/ PollBreak
    \/ PollSleep
    \/ CloseStream
    \/ GetAudioFrames
    \/ WriteWav

Next ==
    \/ OpenStream
    \/ OpenStreamFails
    \/ GenerateAudio
    \/ GeneratorStep
    \/ DecodeRaises
    \/ GeneratorRaises
    \/ GeneratorReturn
    \/ InitialDelay
    \/ PollBreak
    \/ PollSleep
    \/ CloseStream
    \/ GetAudioFrames
    \/ WriteWav
    \/ Interrupt
    \/ CallbackFrame
    \/ CallbackEmpty

Spec == Init /\ [][Next]_vars

\* The driver keeps invoking the callback of an active stream and the
\* controlling thread keeps running.
FairSpec == Spec /\ WF_vars(AudioCallback) /\ WF_vars(Controller)

\* ------------------------------------------------------------ url_to_wav
\* convert_url_to_wav is entered with output_path None or a path; no
\* engine exists yet.
UrlInit ==
    /\ prog = "url_to_wav"
    /\ out \in {"None", "file"}
    /\ PipelineInit
    /\ engine = "none"
    /\ tts_model = "None"
    /\ mimi = <<>>
    /\ text = "unset"
    /\ ret = "none"
    /\ exited = "none"
    /\ fault = "none"
    /\ call = "none"
    /\ write_calls = 0
    /\ written_rate = <<>>
    /\ ClampIdle

\* The try block: the extractor raises (caught: return False), or returns
\* no text (return False), or returns text.
UrlExtract ==
    /\ prog = "url_to_wav"
    /\ pc = "start"
    /\ \E outcome \in {"raise", "", "text"} :
        IF outcome = "raise"
        THEN /\ fault' = "extract"
             /\ ret' = "False"
             /\ pc' = "returned"
             /\ UNCHANGED text
        ELSE /\ text' = outcome
             /\ ret' = IF NoText(outcome) THEN "False" ELSE ret
             /\ pc' = IF NoText(outcome) THEN "returned" ELSE "construct"
             /\ UNCHANGED fault
    /\ UNCHANGED <<out, stream, wav_frames, engine_wav_frames, outdata, cb,
                   frames, written, steps, lastRaw, lastPcm, decodes, produced,
                   played, dequeued, underruns, polls, cvars, tvars, prog, engine,
                   tts_model, mimi, exited, call, write_calls, written_rate>>

\* engine = TTSEngine(quantize=quantize); engine.initialize()
UrlEngine ==
    /\ prog = "url_to_wav"
    /\ pc = "construct"
    /\ engine' = "constructed"
    /\ tts_model' = "model"
    /\ \E r \in SampleRates : mimi' = <<r>>
    /\ pc' = "generate"
    /\ UNCHANGED <<out, stream, wav_frames, engine_wav_frames, outdata, cb,
                   frames, written, steps, lastRaw, lastPcm, decodes, produced,
                   played, dequeued, underruns, polls, cvars, tvars, prog, text, ret,
                   exited, fault, call, write_calls, written_rate>>

\* After get_audio_frames: return False without frames; otherwise
\* concatenate, name the file if no path was given, sf.write at
\* engine.sample_rate and return True.
UrlWrite ==
    /\ prog = "url_to_wav"
    /\ pc = "write"
    /\ IF NoFrames(frames)
       THEN /\ ret' = "False"
            /\ UNCHANGED <<out, written, written_rate, write_calls>>
       ELSE /\ out' = IF out = "None" THEN "generated" ELSE out
            /\ written' = Concatenate(frames)
            /\ written_rate' = <<sample_rate(mimi)>>
            /\ write_calls' = write_calls + 1
            /\ ret' = "True"
    /\ pc' = "returned"
    /\ UNCHANGED <<stream, wav_frames, engine_wav_frames, outdata, cb, frames,
                   steps, lastRaw, lastPcm, decodes, produced, played, dequeued,
                   underruns, polls, cvars, tvars, prog, engine, tts_model, mimi, text,
                   exited, fault, call>>

\* sf.write raises (the path cannot be written): nothing catches it.
UrlWriteFails ==
    /\ prog = "url_to_wav"
    /\ pc = "write"
    /\ ~NoFrames(frames)
    /\ out' = IF out = "None" THEN "generated" ELSE out
    /\ write_calls' = write_calls + 1
    /\ Raise("write")
    /\ UNCHANGED <<wav_frames, engine_wav_frames, outdata, cb, frames, written,
                   steps, lastRaw, lastPcm, decodes, produced, played, dequeued,
                   underruns, polls, cvars, tvars, prog, engine, tts_model, mimi, text,
                   call, written_rate>>

\* main: success = convert_url_to_wav(...); if not success: sys.exit(1)
UrlMain ==
    /\ prog = "url_to_wav"
    /\ pc = "returned"
    /\ exited' = ExitOf(ret)
    /\ pc' = "done"
    /\ UNCHANGED <<out, stream, wav_frames, engine_wav_frames, outdata, cb,
                   frames, written, steps, lastRaw, lastPcm, decodes, produced,
                   played, dequeued, underruns, polls, cvars, tvars, prog, engine,
                   tts_model, mimi, text, ret, fault, call, write_calls,
                   written_rate>>

UrlNext ==
    \/ UrlExtract
    \/ UrlEngine
    \/ GenerateAudio
    \/ GeneratorStep
    \/ DecodeRaises
    \/ GeneratorRaises
    \/ GeneratorReturn
    \/ GetAudioFrames
    \/ UrlWrite
    \/ UrlWriteFails
    \/ UrlMain

UrlSpec == UrlInit /\ [][UrlNext]_vars

\* ------------------------------------------- TTSEngine called directly
\* A caller holds a TTSEngine fresh from __init__ and calls its methods in
\* any order; exceptions come back to the caller.
ApiInit ==
    /\ prog = "api"
    /\ out = "file"
    /\ pc = "idle"
    /\ QueuesInit
    /\ engine = "constructed"
    /\ tts_model = "None"
    /\ mimi = <<>>
    /\ text = "unset"
    /\ ret = "none"
    /\ exited = "none"
    /\ fault = "none"
    /\ call = "none"
    /\ write_calls = 0
    /\ written_rate = <<>>
    /\ ClampIdle

\* engine.initialize(): by a caller that initializes a fresh engine, or
\* again right after a generation, before it has collected the frames.
ApiInitialize ==
    /\ prog = "api"
    /\ pc = "idle"
    /\ tts_model = "None" \/ call = "generate_audio"
    /\ call' = "initialize"
    /\ fault' = "none"
    /\ tts_model' = "model"
    /\ \E r \in SampleRates : mimi' = <<r>>
    /\ UNCHANGED <<pvars, cvars, tvars, prog, engine, text, ret, exited, write_calls,
                   written_rate>>

\* engine.wav_frames.put(frame), by a caller that fills the queue of an
\* engine it has not initialized (tests/test_tts_engine.py).
ApiPut ==
    /\ prog = "api"
    /\ pc = "idle"
    /\ tts_model = "None"
    /\ Len(engine_wav_frames) < MaxSteps
    /\ call' = "put"
    /\ fault' = "none"
    /\ \E frame \in PutFrames :
        engine_wav_frames' = PutNowait(engine_wav_frames, frame)
    /\ UNCHANGED <<out, pc, stream, wav_frames, outdata, cb, frames, written,
                   steps, lastRaw, lastPcm, decodes, produced, played, dequeued,
                   underruns, polls, cvars, tvars, prog, engine, tts_model, mimi, text,
                   ret, exited, write_calls, written_rate>>

\* engine.get_audio_frames()
ApiGetAudioFrames ==
    /\ prog = "api"
    /\ pc = "idle"
    /\ call' = "get_audio_frames"
    /\ fault' = "none"
    /\ frames' = get_audio_frames(engine_wav_frames)
    /\ engine_wav_frames' = Remaining(engine_wav_frames)
    /\ UNCHANGED <<out, pc, stream, wav_frames, outdata, cb, written, steps,
                   lastRaw, lastPcm, decodes, produced, played, dequeued,
                   underruns, polls, cvars, tvars, prog, engine, tts_model,
                   mimi, text, ret, exited, write_calls, written_rate>>

\* engine.sample_rate and engine.frame_rate, read before any generation.
ApiRate ==
    /\ prog = "api"
    /\ pc = "idle"
    /\ steps = 0
    /\ \E property \in {"sample_rate", "frame_rate"} :
        /\ call' = property
        /\ fault' = IF RateRaises(mimi) THEN "uninitialized" ELSE "none"
    /\ UNCHANGED <<pvars, cvars, tvars, prog, engine, tts_model, mimi, text, ret,
                   exited, write_calls, written_rate>>

ApiNext ==
    \/ ApiInitialize
    \/ ApiPut
    \/ ApiGetAudioFrames
    \/ ApiRate
    \/ GenerateAudio
    \/ GeneratorStep
    \/ DecodeRaises
    \/ GeneratorRaises
    \/ GeneratorReturn

EngineSpec == ApiInit /\ [][ApiNext]_vars

\* ------------------------------------------------- the clamp on its own
ClampInit ==
    /\ out = "-"
    /\ PipelineInit
    /\ MainInit
    /\ cin \in ClampInputs
    /\ cout = <<>>
    /\ cagain = <<>>
    /\ cstage = 0

ClampOnce ==
    /\ cstage = 0
    /\ cout' = ClipBlock(cin)
    /\ cstage' = 1
    /\ UNCHANGED <<cin, cagain, pvars, nvars, tvars>>

ClampTwice ==
    /\ cstage = 1
    /\ cagain' = ClipBlock(cout)
    /\ cstage' = 2
    /\ UNCHANGED <<cin, cout, pvars, nvars, tvars>>

ClampNext == ClampOnce \/ ClampTwice

ClampSpec == ClampInit /\ [][ClampNext]_vars

\* ================================================================ claims
InRange(x) == -1 <= x /\ x <= 1
IsEndMarker(raw) == raw # <<>> /\ \A i \in DOMAIN raw : raw[i] = -1
NoSentinel(raw) == raw # <<>> /\ \A i \in DOMAIN raw : raw[i] # -1
\* The clamp, sample by sample, as the claims word it.
Clamped(x) == IF x < -1 THEN -1 ELSE IF x > 1 THEN 1 ELSE x
ClampedBlock(pcm) == [i \in DOMAIN pcm |-> Clamped(pcm[i])]
ProducerStep == steps' # steps
CallbackStep == dequeued' # dequeued \/ underruns' # underruns
\* A frame copied to the start of a buffer of BlockSize samples, zeros after.
Padded(f) == [i \in 1..BlockSize |-> IF i <= Len(f) THEN f[i] ELSE 0]

\* C1: get_audio_frames returns the frames put on the engine's queue, all
\* of them, once each, in insertion order, and leaves the queue empty.
C1_DrainInOrder ==
    (out # "-" /\ pc \in {"write", "done"}) =>
        (frames = produced /\ engine_wav_frames = <<>>)
C1_Witness ==
    /\ out # "-"
    /\ pc = "write"
    /\ Len(frames) = 2
    /\ frames[1] # frames[2]

\* C2: in real-time mode the frames produced are, at every state, the
\* buffers written from dequeued frames followed by the frames still in the
\* queue: one whole frame per buffer, in order, none lost.
C2_Original == out = "-" => produced = played \o wav_frames

\* C3: a producer step on an EndMarker-shaped raw output (every value -1)
\* calls the decoder not at all and leaves both queues as they were.
C3_EndMarkerSkipped ==
    [][(ProducerStep /\ IsEndMarker(lastRaw')) =>
        /\ decodes' = decodes
        /\ wav_frames' = wav_frames
        /\ engine_wav_frames' = engine_wav_frames
        /\ produced' = produced]_vars
C3_Witness ==
    /\ steps = 2
    /\ IsEndMarker(lastRaw)
    /\ Len(produced) = 1

AllInRange(fs) == \A k \in DOMAIN fs : \A i \in DOMAIN fs[k] : InRange(fs[k][i])
C6_Clamp ==
    /\ cstage >= 1 =>
        /\ DOMAIN cout = DOMAIN cin
        /\ \A i \in DOMAIN cin :
            /\ cin[i] < -1 => cout[i] = -1
            /\ cin[i] > 1 => cout[i] = 1
            /\ InRange(cin[i]) => cout[i] = cin[i]
    /\ cstage = 2 => cagain = cout
C6_Witness ==
    /\ cstage = 2
    /\ \E i \in DOMAIN cin : cin[i] < -1
    /\ \E i \in DOMAIN cin : cin[i] > 1
    /\ \E i \in DOMAIN cin : cin[i] = 0

\* C7: a callback that finds the queue empty writes zeros to the whole
\* buffer, raises nothing, and changes neither the queue nor the
\* controller's position.
C7_UnderrunSilence ==
    [][(CallbackStep /\ wav_frames = <<>>) =>
        /\ outdata' = [i \in 1..BlockSize |-> 0]
        /\ cb' = "silence"
        /\ stream' = stream
        /\ wav_frames' = <<>>
        /\ dequeued' = dequeued
        /\ pc' = pc]_vars
C7_Witness ==
    /\ underruns = 3
    /\ steps = 0
    /\ cb = "silence"

\* C8: a callback that dequeues a frame shorter than the buffer copies it
\* to the buffer's start, zeros the rest, and does not raise.
C8_Original ==
    [][(dequeued' # dequeued /\ Len(Head(wav_frames)) < BlockSize) =>
        /\ cb' = "frame"
        /\ outdata' = Padded(Head(wav_frames))]_vars

\* C9: the stream is closed only with the queue empty and every frame
\* produced taken by the audio callback.
C9_CloseOnlyDrained ==
    (out = "-" /\ pc \in {"exit", "done"}) =>
        (wav_frames = <<>> /\ dequeued = Len(produced))
C9_Witness ==
    /\ stream = "closed"
    /\ Len(produced) = 2
    /\ polls > 0

\* C10: once the generator call has returned, the drain loop ends and the
\* stream is closed, whatever frames were produced.
C10_Original == (out = "-" /\ pc = "sleep") ~> (stream = "closed")

\* The number of samples in a list of frames, and the n-th sample counted
\* through the frames from the first.
RECURSIVE SumLen(_)
SumLen(fs) ==
    IF fs = <<>> THEN 0
    ELSE Len(fs[Len(fs)]) + SumLen(SubSeq(fs, 1, Len(fs) - 1))
RECURSIVE SampleAt(_, _)
SampleAt(fs, n) ==
    IF n <= Len(Head(fs)) THEN Head(fs)[n]
    ELSE SampleAt(Tail(fs), n - Len(Head(fs)))
UrlReturned == prog = "url_to_wav" /\ pc \in {"returned", "done"}

C12_NoFramesFalse ==
    (UrlReturned /\ fault = "none" /\ call = "generate_audio"
                 /\ produced = <<>>) =>
        /\ ret = "False"
        /\ write_calls = 0
        /\ written = <<>>
        /\ out # "generated"
C12_Witness ==
    /\ UrlReturned
    /\ call = "generate_audio"
    /\ steps = 2
    /\ produced = <<>>
    /\ ret = "False"
    /\ write_calls = 0

\* C13 as stated: in tts_mlx's file mode a generation that left no frame
\* ends in an error raised to the caller, and nothing is written.
C13_Original ==
    (prog = "tts_mlx" /\ out # "-" /\ pc = "done" /\ produced = <<>>) =>
        (exited = "raised" /\ write_calls = 0)

\* C14: convert_url_to_wav constructs and initializes the engine, and
\* starts generation, only after extraction returned non-empty text; when
\* extraction raises or returns no text it returns False with no engine.
C14_ExtractFirst ==
    /\ (prog = "url_to_wav" /\ (engine # "none" \/ tts_model # "None"
                                \/ call # "none" \/ steps > 0)) =>
            (text = "text" /\ fault # "extract")
    /\ (UrlReturned /\ (text = "" \/ fault = "extract")) =>
            (ret = "False" /\ engine = "none" /\ call = "none")
C14_Witness ==
    /\ prog = "url_to_wav"
    /\ pc = "done"
    /\ text = ""
    /\ ret = "False"
    /\ engine = "none"

\* C15: generate_audio on an engine that was not initialized raises before
\* anything else happens: no generator step runs and the frame queue is
\* left as it was; reading sample_rate or frame_rate before initialization
\* raises too.
C15_UninitializedRaises ==
    [][/\ (prog = "api" /\ pc = "idle" /\ call' = "generate_audio"
                /\ tts_model = "None") =>
            /\ fault' = "uninitialized"
            /\ pc' = "idle"
            /\ engine_wav_frames' = engine_wav_frames
            /\ steps' = steps
            /\ decodes' = decodes
            /\ produced' = produced
       /\ (prog = "api" /\ call' \in {"sample_rate", "frame_rate"}
                /\ mimi = <<>>) =>
            fault' = "uninitialized"]_vars
C15_Witness ==
    /\ prog = "api"
    /\ call = "generate_audio"
    /\ fault = "uninitialized"
    /\ tts_model = "None"
    /\ Len(engine_wav_frames) = 2
    /\ steps = 0

\* C16: when the generator call raises, the exception leaves main: in
\* real-time mode the stream is closed on the way out and the drain loop
\* never polls; in file mode nothing is written.
C16_GeneratorFailure ==
    (prog = "tts_mlx" /\ fault = "generator") =>
        /\ exited = "raised"
        /\ pc = "failed"
        /\ polls = 0
        /\ write_calls = 0
        /\ written = <<>>
        /\ out = "-" => stream = "closed"
        /\ out # "-" => stream = "none"
C16_Witness ==
    /\ prog = "tts_mlx"
    /\ fault = "generator"
    /\ out = "-"
    /\ stream = "closed"
    /\ Len(wav_frames) = 2
    /\ exited = "raised"

\* C17 as stated: a failure to open the output stream is handled by the
\* controller; it is not an exception that ends the program.
C17_Original == (prog = "tts_mlx" /\ fault = "open") => exited # "raised"

\* C18 as stated: a producer step whose decode fails is skipped and the
\* generation goes on with the next step.
C18_Original ==
    [][(ProducerStep /\ fault' = "decode") =>
        (pc' = "generating" /\ produced' = produced)]_vars

\* C19: url_to_wav's main exits with status 1 exactly when
\* convert_url_to_wav returned False, and returns when it returned True.
C19_ExitStatus ==
    (prog = "url_to_wav" /\ pc = "done") =>
        /\ exited = "SystemExit1" <=> ret = "False"
        /\ exited = "returned" <=> ret = "True"
C19_Witness ==
    /\ prog = "url_to_wav"
    /\ pc = "done"
    /\ call = "generate_audio"
    /\ ret = "False"
    /\ exited = "SystemExit1"

\* C20 as stated: every failure of the run, a generator failure and an
\* unwritable output path among them, makes convert_url_to_wav return
\* False.
C20_Original ==
    (prog = "url_to_wav" /\ fault # "none") => ret = "False"

\* C21 as stated: in real-time mode the output stream is opened, and the
\* audio callback first invoked, only after the generator call has started.
C21_Original ==
    (prog = "tts_mlx" /\ out = "-"
        /\ (stream # "none" \/ underruns > 0 \/ dequeued > 0)) =>
        call = "generate_audio"

\* C22: the drain loop reads the queue's size only after the generator
\* call returned and the initial delay was slept; no producer step of a
\* running generation comes after a poll or a sleep, and the stream is not
\* closed while the generation runs.
QsizeRead == polls' # polls \/ (pc = "poll" /\ pc' = "exit")
C22_PollAfterGeneration ==
    [][/\ QsizeRead =>
            /\ call = "generate_audio"
            /\ fault = "none"
            /\ steps' = steps
            /\ produced' = produced
            /\ slept >= INITIAL_PLAYBACK_DELAY
       /\ pc' = "poll" =>
            slept' = INITIAL_PLAYBACK_DELAY + polls' * LOOP_PLAYBACK_DELAY
       /\ pc' = "generating" =>
            (polls' = 0 /\ slept' = 0 /\ stream' # "closed")]_vars
C22_Witness ==
    /\ out = "-"
    /\ pc = "exit"
    /\ polls = 2
    /\ slept = INITIAL_PLAYBACK_DELAY + 2 * LOOP_PLAYBACK_DELAY
    /\ steps = 2
    /\ Len(produced) = 2

\* C23 as stated: after the producer callback has seen an EndMarker-shaped
\* output, a later output of the same generation enqueues no frame.
C23_Original ==
    [][(ProducerStep /\ IsEndMarker(lastRaw)) => produced' = produced]_vars

\* C24: the producer's put succeeds at once at every queue length and in
\* every state of the consumer: a step that decoded a block leaves it at
\* the end of the queue, and the generation goes on.
C24_PutNeverFails ==
    [][(ProducerStep /\ NoSentinel(lastRaw') /\ fault' # "decode") =>
        /\ fault' = "none"
        /\ pc' = "generating"
        /\ Len(produced') = Len(produced) + 1
        /\ IF out = "-"
           THEN wav_frames' = Append(wav_frames, ClampedBlock(lastPcm'))
           ELSE engine_wav_frames'
                    = Append(engine_wav_frames, ClampedBlock(lastPcm'))]_vars
C24_Witness ==
    /\ out = "-"
    /\ pc = "generating"
    /\ stream = "aborted"
    /\ dequeued = 1
    /\ Len(wav_frames) = 1
    /\ steps = 2

\* C25: a queue has one producer and one consumer: in real-time mode only
\* the audio callback takes frames from main's queue, which the controller
\* never changes; in file mode only get_audio_frames takes them, after the
\* generation returned; every frame produced is in exactly one place.
C25_OneConsumer ==
    [][IF out = "-"
       THEN /\ engine_wav_frames' = <<>>
            /\ frames' = <<>>
            /\ Len(produced') = dequeued' + Len(wav_frames')
            /\ Len(wav_frames') < Len(wav_frames) =>
                    /\ stream = "active"
                    /\ dequeued' = dequeued + 1
                    /\ wav_frames' = Tail(wav_frames)
                    /\ pc' = pc
            /\ Len(wav_frames') > Len(wav_frames) => ProducerStep
       ELSE /\ wav_frames' = <<>>
            /\ dequeued' = 0
            /\ produced' = frames' \o engine_wav_frames'
            /\ Len(engine_wav_frames') < Len(engine_wav_frames) =>
                    /\ pc = "collect"
                    /\ frames' = engine_wav_frames]_vars
C25_Witness ==
    /\ out = "-"
    /\ pc = "poll"
    /\ polls = 1
    /\ dequeued = 1
    /\ Len(wav_frames) = 1
    /\ stream = "active"

\* The frames the producer enqueued in the last generation.
Utterance == SubSeq(produced, mark + 1, Len(produced))

\* C26: generate_audio on an initialized engine puts a new empty queue in
\* place before the generator runs, so the engine's queue, and what
\* get_audio_frames returns, holds frames of the last generation only.
C26_FreshQueue ==
    [][/\ (prog = "api" /\ pc = "idle" /\ call' = "generate_audio"
                /\ tts_model # "None") =>
            (engine_wav_frames' = <<>> /\ steps' = steps)
       /\ (prog = "api" /\ on_frame_callback' = "None") =>
            engine_wav_frames' \in {Utterance', <<>>}
       /\ (prog = "api" /\ on_frame_callback = "None"
                /\ call' = "get_audio_frames") =>
            frames' \in {Utterance, <<>>}]_vars
C26_Witness ==
    /\ prog = "api"
    /\ call = "get_audio_frames"
    /\ on_frame_callback = "None"
    /\ wav_frames = <<>>
    /\ mark = 1
    /\ Len(produced) = 2
    /\ produced[1] # produced[2]
    /\ frames = <<produced[2]>>

\* C27: the generator is given the caller's callback when there is one and
\* _on_frame otherwise; with a caller's callback the engine's queue gets no
\* frame and get_audio_frames then returns the empty list.
C27_CallbackChoice ==
    [][/\ (prog = "api" /\ ProducerStep
                /\ on_frame_callback = "custom_on_frame") =>
            /\ engine_wav_frames = <<>>
            /\ engine_wav_frames' = <<>>
            /\ wav_frames' = wav_frames \o Added(produced, produced')
       /\ (prog = "api" /\ ProducerStep /\ on_frame_callback = "None") =>
            /\ wav_frames' = wav_frames
            /\ engine_wav_frames'
                    = engine_wav_frames \o Added(produced, produced')
       /\ (prog = "api" /\ call = "generate_audio"
                /\ on_frame_callback = "custom_on_frame"
                /\ call' = "get_audio_frames") =>
            frames' = <<>>]_vars
C27_Witness ==
    /\ prog = "api"
    /\ call = "get_audio_frames"
    /\ on_frame_callback = "custom_on_frame"
    /\ Len(wav_frames) = 2
    /\ Len(produced) = 2
    /\ frames = <<>>
    /\ engine_wav_frames = <<>>

\* C28: get_audio_frames returns at once with everything the queue held
\* and leaves it empty: the empty list from an empty queue, and from a
\* second call that follows the first.
C28_GetAudioFramesEmpties ==
    [][(prog = "api" /\ call' = "get_audio_frames") =>
        /\ pc' = "idle"
        /\ fault' = "none"
        /\ frames' = engine_wav_frames
        /\ engine_wav_frames' = <<>>
        /\ engine_wav_frames = <<>> => frames' = <<>>
        /\ call = "get_audio_frames" => frames' = <<>>]_vars
C28_Witness ==
    /\ prog = "api"
    /\ call = "get_audio_frames"
    /\ tts_model = "None"
    /\ frames = <<>>
    /\ engine_wav_frames = <<>>

\* C29 as stated: from the start of a generation until its frames are
\* collected, the engine's audio tokenizer, and with it the sample rate,
\* cannot be replaced.
C29_Original ==
    [][(prog = "api" /\ call = "generate_audio" /\ fault = "none"
            /\ tts_model # "None") => mimi' = mimi]_vars

\* C30: once main has left the with block, by an exception or by the end
\* of the drain loop, the audio callback runs no more: no frame is dequeued
\* or written to a buffer, the queue keeps what it held.
C30_NoDeliveryAfterClose ==
    [][(out = "-" /\ exited # "none") =>
        /\ dequeued' = dequeued
        /\ played' = played
        /\ outdata' = outdata
        /\ underruns' = underruns
        /\ wav_frames' = wav_frames]_vars
C30_Witness ==
    /\ out = "-"
    /\ fault = "interrupt"
    /\ stream = "closed"
    /\ exited = "raised"
    /\ dequeued = 1
    /\ Len(wav_frames) = 1
====
